---- MODULE Spec2Model ----
(***************************************************************************)
(* Model of arena/log.rs: Log::from_str (the log scanner), the six         *)
(* inventory accessors and Log::collection (the collection reconciler).    *)
(*                                                                         *)
(* A log line is a sequence of text pieces:                                *)
(*   "MC"  the text "<== PlayerInventory.GetPlayerCardsV3"                 *)
(*   "MI"  the text "<== PlayerInventory.GetPlayerInventory"               *)
(*   "WS"  one whitespace character                                        *)
(*   "X"   text that is neither a marker, whitespace nor a JSON document   *)
(*   a name of JsonText: the text of that JSON document                    *)
(* An Option<T> is a sequence of length at most one (<<>> is None).        *)
(***************************************************************************)
EXTENDS Integers, Sequences, FiniteSets, TLC

VARIABLES
  pc,                \* "scan" | "ready" | "coll" | "ok" | "panic"
  line,              \* the line the for loop of from_str read last
  hist,              \* per line scanned so far: what each marker, taken alone, yields
  player_cards_vec,  \* the local Vec player_cards of from_str
  player_inv_vec,    \* the local Vec player_inventory of from_str
  log,               \* the Log value from_str returns
  acc,               \* Option: the values the six accessors returned
  remaining,         \* keys of the cards payload the for loop has not visited yet
  builder,           \* the DeckBuilder: card -> count
  sel,               \* per visited key, what the loop body did with it
  result             \* Option: the Deck collection() returned

vars == <<pc, line, hist, player_cards_vec, player_inv_vec, log, acc, remaining,
          builder, sel, result>>

----------------------------------------------------------------------------
\* Bounds of the model.
MaxLines == 2
MaxEntries == 2
MaxCount == 2

----------------------------------------------------------------------------
\* JSON documents that can stand on a log line. A document is an object that
\* may have an "id" member and has a "payload" object; a payload member's
\* value is an integer (negative: not a usize).
JsonText ==
  [ JA |-> [hasId |-> TRUE,  id |-> 1, payload |-> ("1" :> 4 @@ "2" :> 2)],
    JB |-> [hasId |-> TRUE,  id |-> 2, payload |-> ("wcRare" :> 3)],
    JC |-> [hasId |-> TRUE,  id |-> 3,
            payload |-> ("wcCommon" :> 1 @@ "wcUncommon" :> 2 @@ "wcRare" :> 3 @@
                         "wcMythic" :> 4 @@ "gems" :> 5 @@ "gold" :> 6)],
    JD |-> [hasId |-> TRUE,  id |-> 4, payload |-> ("gems" :> 7 @@ "note" :> (0 - 1))],
    JE |-> [hasId |-> FALSE, id |-> 0, payload |-> ("1" :> 1)],
    JF |-> [hasId |-> TRUE,  id |-> 6, payload |-> ("gold" :> (0 - 1))] ]

Whitespace == "WS"

\* serde_json::from_str skips whitespace around the document and rejects
\* anything else around it.
RECURSIVE TrimStart(_)
TrimStart(s) ==
  IF s # <<>> /\ Head(s) = Whitespace THEN TrimStart(Tail(s)) ELSE s

RECURSIVE TrimEnd(_)
TrimEnd(s) ==
  IF s # <<>> /\ s[Len(s)] = Whitespace THEN TrimEnd(SubSeq(s, 1, Len(s) - 1)) ELSE s

\* Option<document>: the JSON document the text `data` is, if it is one.
JsonParse(data) ==
  LET t == TrimEnd(TrimStart(data)) IN
  IF Len(t) = 1 /\ t[1] \in DOMAIN JsonText THEN <<JsonText[t[1]]>> ELSE <<>>

\* Deserialize for GetPlayerCardsV3 { id: u64, payload: HashMap<String, usize> }.
DeserializeCards(data) ==
  LET d == JsonParse(data) IN
  IF d # <<>> /\ d[1].hasId /\ \A k \in DOMAIN d[1].payload : d[1].payload[k] >= 0
  THEN <<[id |-> d[1].id, payload |-> d[1].payload]>>
  ELSE <<>>

\* The JSON member names of GetPlayerInventoryPayload (serde rename).
InvFields == {"wcCommon", "wcUncommon", "wcRare", "wcMythic", "gems", "gold"}

\* #[serde(default)]: a member absent from the payload is zero.
FieldOrDefault(p, f) == IF f \in DOMAIN p THEN p[f] ELSE 0

\* Deserialize for GetPlayerInventory { id: u64, payload: GetPlayerInventoryPayload };
\* members that are no field of the struct are ignored.
DeserializeInventory(data) ==
  LET d == JsonParse(data) IN
  IF d # <<>> /\ d[1].hasId
     /\ \A k \in DOMAIN d[1].payload \cap InvFields : d[1].payload[k] >= 0
  THEN <<[id |-> d[1].id,
          payload |-> [wc_common_count   |-> FieldOrDefault(d[1].payload, "wcCommon"),
                       wc_uncommon_count |-> FieldOrDefault(d[1].payload, "wcUncommon"),
                       wc_rare_count     |-> FieldOrDefault(d[1].payload, "wcRare"),
                       wc_mythic_count   |-> FieldOrDefault(d[1].payload, "wcMythic"),
                       gems              |-> FieldOrDefault(d[1].payload, "gems"),
                       gold              |-> FieldOrDefault(d[1].payload, "gold")]]>>
  ELSE <<>>

----------------------------------------------------------------------------
\* The two regular expressions  ^.*<marker>\s+(?P<data>.*)

\* Positions where the marker stands followed by at least one whitespace.
MarkerAt(l, marker) ==
  {p \in 1..(Len(l) - 1) : l[p] = marker /\ l[p + 1] = Whitespace}

Max(S) == CHOOSE x \in S : \A y \in S : y <= x

\* Option<data>: the greedy ^.* takes the last such position, the greedy \s+
\* all the whitespace after it, and data is the rest of the line.
Captures(l, marker) ==
  IF MarkerAt(l, marker) = {} THEN <<>>
  ELSE <<TrimStart(SubSeq(l, Max(MarkerAt(l, marker)) + 1, Len(l)))>>

GET_PLAYER_CARDS_V3_REGEX(l) == Captures(l, "MC")

GET_PLAYER_INVENTORY_REGEX(l) == Captures(l, "MI")

\* The lines a log is made of: a head followed by a tail.
Heads ==
  { <<>>, <<"X">>, <<"MC">>, <<"MI">>,
    <<"MC", "WS">>, <<"MI", "WS">>, <<"X", "MC", "WS", "WS">>, <<"X", "MI", "WS">>,
    <<"MC", "WS", "X", "MI", "WS">>, <<"MI", "WS", "X", "MC", "WS">>,
    <<"MC", "WS", "JA", "MC", "WS">>, <<"MI", "WS", "JB", "MI", "WS">> }

Tails ==
  { <<>>, <<"X">>, <<"JA">>, <<"JB">>, <<"JC", "WS">>, <<"JD">>, <<"JE">>, <<"JF">>,
    <<"JA", "X">> }

Lines == {h \o t : h \in Heads, t \in Tails}

----------------------------------------------------------------------------
NoAcc == <<>>

Init ==
  /\ pc = "scan"
  /\ line = <<>>
  /\ hist = <<>>
  /\ player_cards_vec = <<>>
  /\ player_inv_vec = <<>>
  /\ log = [player_cards |-> <<>>, player_inventory |-> <<>>]
  /\ acc = NoAcc
  /\ remaining = {}
  /\ builder = <<>>
  /\ sel = <<>>
  /\ result = <<>>

\* What one marker, taken alone, yields on a line: "none" (no match),
\* "bad" (match, payload does not deserialize) or "ok" with the record.
Outcome(caps, rec) ==
  IF caps = <<>> THEN [kind |-> "none", rec |-> <<>>]
  ELSE IF rec = <<>> THEN [kind |-> "bad", rec |-> <<>>]
  ELSE [kind |-> "ok", rec |-> rec]

LineOutcome(l) ==
  [c |-> Outcome(GET_PLAYER_CARDS_V3_REGEX(l),
                 IF GET_PLAYER_CARDS_V3_REGEX(l) = <<>> THEN <<>>
                 ELSE DeserializeCards(GET_PLAYER_CARDS_V3_REGEX(l)[1])),
   i |-> Outcome(GET_PLAYER_INVENTORY_REGEX(l),
                 IF GET_PLAYER_INVENTORY_REGEX(l) = <<>> THEN <<>>
                 ELSE DeserializeInventory(GET_PLAYER_INVENTORY_REGEX(l)[1]))]

\* The body of `for line in lines_iter`: the new (player_cards, player_inventory).
ScanBody(l, cardsVec, invVec) ==
  IF GET_PLAYER_CARDS_V3_REGEX(l) # <<>>
  THEN <<cardsVec \o DeserializeCards(GET_PLAYER_CARDS_V3_REGEX(l)[1]), invVec>>
  ELSE IF GET_PLAYER_INVENTORY_REGEX(l) # <<>>
  THEN <<cardsVec, invVec \o DeserializeInventory(GET_PLAYER_INVENTORY_REGEX(l)[1])>>
  ELSE <<cardsVec, invVec>>

ScanLine ==
  /\ pc = "scan"
  /\ Len(hist) < MaxLines
  /\ \E l \in Lines :
       /\ line' = l
       /\ hist' = Append(hist, LineOutcome(l))
       /\ player_cards_vec' = ScanBody(l, player_cards_vec, player_inv_vec)[1]
       /\ player_inv_vec' = ScanBody(l, player_cards_vec, player_inv_vec)[2]
  /\ UNCHANGED <<pc, log, acc, remaining, builder, sel, result>>

\* Vec::last().map(clone)
LastOf(v) == IF v = <<>> THEN <<>> ELSE <<v[Len(v)]>>

\* The lines are exhausted: build the Log; the locals go out of scope.
EndScan ==
  /\ pc = "scan"
  /\ log' = [player_cards |-> LastOf(player_cards_vec),
             player_inventory |-> LastOf(player_inv_vec)]
  /\ player_cards_vec' = <<>>
  /\ player_inv_vec' = <<>>
  /\ line' = <<>>
  /\ pc' = "ready"
  /\ UNCHANGED <<hist, acc, remaining, builder, sel, result>>

----------------------------------------------------------------------------
\* The accessors.
wc_common_count(l) ==
  IF l.player_inventory = <<>> THEN 0 ELSE l.player_inventory[1].payload.wc_common_count

wc_uncommon_count(l) ==
  IF l.player_inventory = <<>> THEN 0 ELSE l.player_inventory[1].payload.wc_uncommon_count

\* Mutant: the rare accessor reads the mythic field.
wc_rare_count_mythic(l) ==
  IF l.player_inventory = <<>> THEN 0 ELSE l.player_inventory[1].payload.wc_mythic_count

wc_rare_count(l) ==
  IF l.player_inventory = <<>> THEN 0 ELSE l.player_inventory[1].payload.wc_rare_count

wc_mythic_count(l) ==
  IF l.player_inventory = <<>> THEN 0 ELSE l.player_inventory[1].payload.wc_mythic_count

gems(l) ==
  IF l.player_inventory = <<>> THEN 0 ELSE l.player_inventory[1].payload.gems

gold(l) ==
  IF l.player_inventory = <<>> THEN 0 ELSE l.player_inventory[1].payload.gold

ReadAccessors ==
  /\ pc = "ready"
  /\ acc = NoAcc
  /\ acc' = <<[wc_common_count   |-> wc_common_count(log),
               wc_uncommon_count |-> wc_uncommon_count(log),
               wc_rare_count     |-> wc_rare_count(log),
               wc_mythic_count   |-> wc_mythic_count(log),
               gems              |-> gems(log),
               gold              |-> gold(log)]>>
  /\ UNCHANGED <<pc, line, hist, player_cards_vec, player_inv_vec, log, remaining,
                 builder, sel, result>>

----------------------------------------------------------------------------
\* The catalog: ALL_CARDS through its two indexes, and ARENA_2_SCRYFALL.
Card(id, name, arena_id) == [id |-> id, name |-> name, arena_id |-> arena_id]

NoCard == Card("", "", 0)

\* ID_LOOKUP: catalog id -> card.
ID_LOOKUP ==
  [ c0  |-> Card("c0", "Zero", 0),
    c1  |-> Card("c1", "Alpha", 1),
    c2  |-> Card("c2", "Beta", 0),
    c4  |-> Card("c4", "Fire", 9),
    c4a |-> Card("c4a", "Fire // Ice", 4),
    c4b |-> Card("c4b", "Fire // Ice", 0),
    c8  |-> Card("c8", "Epsilon", 8) ]

\* NAME_LOOKUP: name -> the cards of that name, in the catalog's order.
NAME_LOOKUP ==
  ( "Zero" :> <<ID_LOOKUP["c0"]>> @@ "Alpha" :> <<ID_LOOKUP["c1"]>> @@
    "Beta" :> <<ID_LOOKUP["c2"]>> @@ "Fire" :> <<ID_LOOKUP["c4"]>> @@
    "Fire // Ice" :> <<ID_LOOKUP["c4a"], ID_LOOKUP["c4b"]>> @@
    "Epsilon" :> <<ID_LOOKUP["c8"]>> @@ "Nil" :> <<>> )

\* ARENA_2_SCRYFALL: arena id -> (catalog id, expected name). Arena id 6 is
\* unknown; 5 is known without a catalog id; 7 names a catalog id the catalog
\* lacks; 8 and 0 expect a name the name index cannot serve; 9 names a card
\* bound to arena id 1; 2 and 3 name one card that is bound to no arena id.
ARENA_2_SCRYFALL ==
  ( 0 :> <<"c0", "Nil">>  @@ 1 :> <<"c1", "Alpha">> @@ 2 :> <<"c2", "Beta">> @@
    3 :> <<"c2", "Beta">> @@ 4 :> <<"c4", "Fire // Ice">> @@ 5 :> <<"", "Gamma">> @@
    7 :> <<"c7", "Delta">> @@ 8 :> <<"c8", "Eps">> @@ 9 :> <<"c1", "Alpha">> )

----------------------------------------------------------------------------
\* str::parse::<u64>() on a key of the cards payload.
Digits ==
  ( "0" :> 0 @@ "1" :> 1 @@ "2" :> 2 @@ "3" :> 3 @@ "4" :> 4 @@
    "5" :> 5 @@ "6" :> 6 @@ "7" :> 7 @@ "8" :> 8 @@ "9" :> 9 )

\* The characters of the keys the model uses.
Chars ==
  ( "0" :> <<"0">> @@ "1" :> <<"1">> @@ "2" :> <<"2">> @@ "3" :> <<"3">> @@
    "4" :> <<"4">> @@ "5" :> <<"5">> @@ "6" :> <<"6">> @@ "7" :> <<"7">> @@
    "8" :> <<"8">> @@ "9" :> <<"9">> @@ "01" :> <<"0", "1">> @@ "+3" :> <<"+", "3">> @@
    "x" :> <<"x">> @@
    "18446744073709551616" :>
      <<"1", "8", "4", "4", "6", "7", "4", "4", "0", "7",
        "3", "7", "0", "9", "5", "5", "1", "6", "1", "6">> @@
    "wcCommon" :> <<"w", "c", "C", "o", "m", "m", "o", "n">> @@
    "wcUncommon" :> <<"w", "c", "U", "n", "c", "o", "m", "m", "o", "n">> @@
    "wcRare" :> <<"w", "c", "R", "a", "r", "e">> @@
    "wcMythic" :> <<"w", "c", "M", "y", "t", "h", "i", "c">> @@
    "gems" :> <<"g", "e", "m", "s">> @@ "gold" :> <<"g", "o", "l", "d">> )

ParseErr == 0 - 1

\* u64::MAX = 18446744073709551615, digit by digit (the value itself is
\* beyond the range of model values).
U64MaxDigits == <<1, 8, 4, 4, 6, 7, 4, 4, 0, 7, 3, 7, 0, 9, 5, 5, 1, 6, 1, 5>>

RECURSIVE StripZeros(_)
StripZeros(ds) == IF ds # <<>> /\ Head(ds) = 0 THEN StripZeros(Tail(ds)) ELSE ds

RECURSIVE DigitsGreater(_, _)
DigitsGreater(a, b) ==
  IF a = <<>> THEN FALSE
  ELSE IF Head(a) # Head(b) THEN Head(a) > Head(b)
  ELSE DigitsGreater(Tail(a), Tail(b))

\* The digits stand for a value above u64::MAX (the checked arithmetic of
\* parse overflows).
Overflows(ds) ==
  LET z == StripZeros(ds) IN
  \/ Len(z) > Len(U64MaxDigits)
  \/ Len(z) = Len(U64MaxDigits) /\ DigitsGreater(z, U64MaxDigits)

RECURSIVE ValueOf(_, _)
ValueOf(ds, n) == IF ds = <<>> THEN n ELSE ValueOf(Tail(ds), n * 10 + Head(ds))

\* An optional leading "+", then at least one digit and nothing else;
\* ParseErr when the text is not of that form or the value overflows.
ParseU64(cs) ==
  LET body == IF cs # <<>> /\ Head(cs) = "+" THEN Tail(cs) ELSE cs IN
  IF body = <<>> \/ \E i \in 1..Len(body) : body[i] \notin DOMAIN Digits
  THEN ParseErr
  ELSE LET ds == [i \in 1..Len(body) |-> Digits[body[i]]] IN
       IF Overflows(ds) THEN ParseErr ELSE ValueOf(ds, 0)

----------------------------------------------------------------------------
\* DeckBuilder::insert_count: counts of the same card are summed.
InsertCount(b, card, count) ==
  IF card \in DOMAIN b THEN [b EXCEPT ![card] = @ + count] ELSE b @@ (card :> count)

\* Mutant: on a name mismatch the last card of the name index's list is taken.
SelectCard_last(id, name) ==
  IF id \notin DOMAIN ID_LOOKUP
  THEN [ok |-> FALSE, card |-> NoCard, usedName |-> FALSE, why |-> "id lookup must work"]
  ELSE IF ID_LOOKUP[id].name = name
  THEN [ok |-> TRUE, card |-> ID_LOOKUP[id], usedName |-> FALSE, why |-> ""]
  ELSE IF name \notin DOMAIN NAME_LOOKUP
  THEN [ok |-> FALSE, card |-> NoCard, usedName |-> TRUE, why |-> "name lookup must work"]
  ELSE IF NAME_LOOKUP[name] = <<>>
  THEN [ok |-> FALSE, card |-> NoCard, usedName |-> TRUE, why |-> "nothing"]
  ELSE [ok |-> TRUE, card |-> NAME_LOOKUP[name][Len(NAME_LOOKUP[name])],
        usedName |-> TRUE, why |-> ""]

\* Mutant: a name the name index lacks keeps the card fetched by id.
SelectCard_keepOnNameMiss(id, name) ==
  IF id \notin DOMAIN ID_LOOKUP
  THEN [ok |-> FALSE, card |-> NoCard, usedName |-> FALSE, why |-> "id lookup must work"]
  ELSE IF ID_LOOKUP[id].name = name
  THEN [ok |-> TRUE, card |-> ID_LOOKUP[id], usedName |-> FALSE, why |-> ""]
  ELSE IF name \notin DOMAIN NAME_LOOKUP \/ NAME_LOOKUP[name] = <<>>
  THEN [ok |-> TRUE, card |-> ID_LOOKUP[id], usedName |-> TRUE, why |-> ""]
  ELSE [ok |-> TRUE, card |-> NAME_LOOKUP[name][1], usedName |-> TRUE, why |-> ""]

\* Lines 152-167: the card for a non-empty catalog id and an expected name.
SelectCard(id, name) ==
  IF id \notin DOMAIN ID_LOOKUP
  THEN [ok |-> FALSE, card |-> NoCard, usedName |-> FALSE, why |-> "id lookup must work"]
  ELSE IF ID_LOOKUP[id].name = name
  THEN [ok |-> TRUE, card |-> ID_LOOKUP[id], usedName |-> FALSE, why |-> ""]
  ELSE IF name \notin DOMAIN NAME_LOOKUP
  THEN [ok |-> FALSE, card |-> NoCard, usedName |-> TRUE, why |-> "name lookup must work"]
  ELSE IF NAME_LOOKUP[name] = <<>>
  THEN [ok |-> FALSE, card |-> NoCard, usedName |-> TRUE, why |-> "nothing"]
  ELSE [ok |-> TRUE, card |-> NAME_LOOKUP[name][1], usedName |-> TRUE, why |-> ""]

\* Mutant: the arena-id check is left out.
ArenaIdConflict_never(card, arena_id) == FALSE

\* Line 169: the condition under which unreachable!() is hit.
ArenaIdConflict(card, arena_id) == card.arena_id # 0 /\ card.arena_id # arena_id

\* Mutant: insert instead of insert_count, the count replaces the one held.
ProcessMapped_overwrite(b, arena_id, count) ==
  LET id   == ARENA_2_SCRYFALL[arena_id][1]
      name == ARENA_2_SCRYFALL[arena_id][2]
      s    == SelectCard(id, name)
  IN
  IF id = ""
  THEN [kind |-> "skip", builder |-> b, card |-> NoCard, usedName |-> FALSE,
        why |-> "no scryfall id"]
  ELSE IF ~s.ok
  THEN [kind |-> "panic", builder |-> b, card |-> NoCard, usedName |-> s.usedName,
        why |-> s.why]
  ELSE IF ArenaIdConflict(s.card, arena_id)
  THEN [kind |-> "panic", builder |-> b, card |-> s.card, usedName |-> s.usedName,
        why |-> "unreachable"]
  ELSE [kind |-> "insert",
        builder |-> [c \in DOMAIN b \cup {s.card} |-> IF c = s.card THEN count ELSE b[c]],
        card |-> s.card, usedName |-> s.usedName, why |-> ""]

\* Mutant: a card with arena id 0 is not handed to the builder.
ProcessMapped_dropUnbound(b, arena_id, count) ==
  LET id   == ARENA_2_SCRYFALL[arena_id][1]
      name == ARENA_2_SCRYFALL[arena_id][2]
      s    == SelectCard(id, name)
  IN
  IF id = ""
  THEN [kind |-> "skip", builder |-> b, card |-> NoCard, usedName |-> FALSE,
        why |-> "no scryfall id"]
  ELSE IF ~s.ok
  THEN [kind |-> "panic", builder |-> b, card |-> NoCard, usedName |-> s.usedName,
        why |-> s.why]
  ELSE IF ArenaIdConflict(s.card, arena_id)
  THEN [kind |-> "panic", builder |-> b, card |-> s.card, usedName |-> s.usedName,
        why |-> "unreachable"]
  ELSE IF s.card.arena_id = 0
  THEN [kind |-> "skip", builder |-> b, card |-> NoCard, usedName |-> s.usedName,
        why |-> ""]
  ELSE [kind |-> "insert", builder |-> InsertCount(b, s.card, count), card |-> s.card,
        usedName |-> s.usedName, why |-> ""]

\* Lines 151-178, for an arena id the mapping knows.
ProcessMapped(b, arena_id, count) ==
  LET id   == ARENA_2_SCRYFALL[arena_id][1]
      name == ARENA_2_SCRYFALL[arena_id][2]
      s    == SelectCard(id, name)
  IN
  IF id = ""
  THEN [kind |-> "skip", builder |-> b, card |-> NoCard, usedName |-> FALSE,
        why |-> "no scryfall id"]
  ELSE IF ~s.ok
  THEN [kind |-> "panic", builder |-> b, card |-> NoCard, usedName |-> s.usedName,
        why |-> s.why]
  ELSE IF ArenaIdConflict(s.card, arena_id)
  THEN [kind |-> "panic", builder |-> b, card |-> s.card, usedName |-> s.usedName,
        why |-> "unreachable"]
  ELSE [kind |-> "insert", builder |-> InsertCount(b, s.card, count), card |-> s.card,
        usedName |-> s.usedName, why |-> ""]

\* Mutant: an arena id the mapping lacks is unwrapped instead of skipped.
ProcessEntry_unknownPanics(b, key, count) ==
  LET arena_id == ParseU64(Chars[key]) IN
  IF arena_id = ParseErr
  THEN [kind |-> "panic", builder |-> b, card |-> NoCard, usedName |-> FALSE,
        why |-> "parse to u64 works"]
  ELSE IF arena_id \notin DOMAIN ARENA_2_SCRYFALL
  THEN [kind |-> "panic", builder |-> b, card |-> NoCard, usedName |-> FALSE,
        why |-> "cannot find"]
  ELSE ProcessMapped(b, arena_id, count)

\* Lines 146-185: the body of the for loop for one (key, count) of the payload.
ProcessEntry(b, key, count) ==
  LET arena_id == ParseU64(Chars[key]) IN
  IF arena_id = ParseErr
  THEN [kind |-> "panic", builder |-> b, card |-> NoCard, usedName |-> FALSE,
        why |-> "parse to u64 works"]
  ELSE IF arena_id \notin DOMAIN ARENA_2_SCRYFALL
  THEN [kind |-> "skip", builder |-> b, card |-> NoCard, usedName |-> FALSE,
        why |-> "cannot find"]
  ELSE ProcessMapped(b, arena_id, count)

\* The payload of the retained cards record (no entries when there is none).
CardsPayload(l) == IF l.player_cards = <<>> THEN <<>> ELSE l.player_cards[1].payload

\* Lines 144-146: a new builder and the start of the iteration.
StartCollection ==
  /\ pc = "ready"
  /\ pc' = "coll"
  /\ remaining' = DOMAIN CardsPayload(log)
  /\ builder' = <<>>
  /\ sel' = <<>>
  /\ UNCHANGED <<line, hist, player_cards_vec, player_inv_vec, log, acc, result>>

\* One iteration; the HashMap yields its entries in an unspecified order.
\* A panic unwinds: the builder is dropped and nothing is returned.
CollectEntry ==
  /\ pc = "coll"
  /\ \E key \in remaining :
       LET r == ProcessEntry(builder, key, CardsPayload(log)[key]) IN
       /\ sel' = sel @@ (key :> [kind |-> r.kind, card |-> r.card,
                                 usedName |-> r.usedName, why |-> r.why])
       /\ remaining' = remaining \ {key}
       /\ builder' = IF r.kind = "panic" THEN <<>> ELSE r.builder
       /\ pc' = IF r.kind = "panic" THEN "panic" ELSE "coll"
  /\ UNCHANGED <<line, hist, player_cards_vec, player_inv_vec, log, acc, result>>

\* Line 187: Ok(builder.build()).
FinishCollection ==
  /\ pc = "coll"
  /\ remaining = {}
  /\ result' = <<builder>>
  /\ pc' = "ok"
  /\ UNCHANGED <<line, hist, player_cards_vec, player_inv_vec, log, acc, remaining,
                 builder, sel>>

Next ==
  \/ ScanLine
  \/ EndScan
  \/ ReadAccessors
  \/ StartCollection
  \/ CollectEntry
  \/ FinishCollection

Spec == Init /\ [][Next]_vars

----------------------------------------------------------------------------
\* The reconciler alone, started from any Log whose cards payload has at most
\* MaxEntries entries with counts up to MaxCount.
Keys ==
  {"0", "1", "2", "3", "4", "5", "6", "7", "8", "9", "01", "+3", "x",
   "18446744073709551616"}

Payloads ==
  UNION {[S -> 0..MaxCount] : S \in {T \in SUBSET Keys : Cardinality(T) <= MaxEntries}}

CollInit ==
  /\ pc = "ready"
  /\ line = <<>>
  /\ hist = <<>>
  /\ player_cards_vec = <<>>
  /\ player_inv_vec = <<>>
  /\ log \in [player_cards : {<<>>} \cup {<<[id |-> 1, payload |-> p]>> : p \in Payloads},
              player_inventory : {<<>>}]
  /\ acc = NoAcc
  /\ remaining = {}
  /\ builder = <<>>
  /\ sel = <<>>
  /\ result = <<>>

CollNext == StartCollection \/ CollectEntry \/ FinishCollection

CollSpec == CollInit /\ [][CollNext]_vars

----------------------------------------------------------------------------
\* What the claims speak of, stated from the catalog and the input alone.

\* The records one marker yields over the lines scanned, in line order.
RECURSIVE OkRecs(_, _)
OkRecs(h, f) ==
  IF h = <<>> THEN <<>>
  ELSE OkRecs(SubSeq(h, 1, Len(h) - 1), f)
         \o (IF h[Len(h)][f].kind = "ok" THEN h[Len(h)][f].rec ELSE <<>>)

\* Option: the payload of the last line that matches marker f and deserializes.
LastSuccessful(h, f) ==
  LET I == {i \in 1..Len(h) : h[i][f].kind = "ok"} IN
  IF I = {} THEN <<>> ELSE h[Max(I)][f].rec

\* A line on which both markers match.
MatchesBoth(o) == o.c.kind # "none" /\ o.i.kind # "none"

\* The arena id each key of the model parses to (ParseErr: it does not parse).
ParsedKeys == [key \in DOMAIN Chars |-> ParseU64(Chars[key])]

ArenaOf(key) == ParsedKeys[key]

Mapped(key) == ArenaOf(key) # ParseErr /\ ArenaOf(key) \in DOMAIN ARENA_2_SCRYFALL

IdOf(key) == ARENA_2_SCRYFALL[ArenaOf(key)][1]

NameOf(key) == ARENA_2_SCRYFALL[ArenaOf(key)][2]

\* The entry is one the reconciler is to skip.
Skippable(key) ==
  /\ ArenaOf(key) # ParseErr
  /\ ~Mapped(key) \/ IdOf(key) = ""

\* The entry resolves to a non-empty catalog id.
Resolves(key) == Mapped(key) /\ IdOf(key) # ""

IdMiss(key) == Resolves(key) /\ IdOf(key) \notin DOMAIN ID_LOOKUP

NameMiss(key) ==
  /\ Resolves(key) /\ ~IdMiss(key)
  /\ ID_LOOKUP[IdOf(key)].name # NameOf(key)
  /\ NameOf(key) \notin DOMAIN NAME_LOOKUP \/ NAME_LOOKUP[NameOf(key)] = <<>>

\* The entry has a card selected for it.
Selects(key) == Resolves(key) /\ ~IdMiss(key) /\ ~NameMiss(key)

ExpectedCard(key) ==
  IF ID_LOOKUP[IdOf(key)].name = NameOf(key) THEN ID_LOOKUP[IdOf(key)]
  ELSE Head(NAME_LOOKUP[NameOf(key)])

Conflict(key) ==
  /\ Selects(key)
  /\ ExpectedCard(key).arena_id # 0
  /\ ExpectedCard(key).arena_id # ArenaOf(key)

\* The entry hits one of the three catalog-integrity violations.
Violation(key) == IdMiss(key) \/ NameMiss(key) \/ Conflict(key)

Entries == DOMAIN CardsPayload(log)

Finished == pc \in {"ok", "panic"}

\* What a run of collection() ended with.
RunOutcome == [ok |-> pc = "ok", deck |-> result]

\* collection() over the entries of payload p visited in the given order.
RECURSIVE CollectFrom(_, _, _)
CollectFrom(b, p, order) ==
  IF order = <<>> THEN [ok |-> TRUE, deck |-> <<b>>]
  ELSE LET r == ProcessEntry(b, Head(order), p[Head(order)]) IN
       IF r.kind = "panic" THEN [ok |-> FALSE, deck |-> <<>>]
       ELSE CollectFrom(r.builder, p, Tail(order))

\* Every order in which the keys S can be visited.
Orders(S) ==
  {o \in [1..Cardinality(S) -> S] : \A i, j \in 1..Cardinality(S) : o[i] = o[j] => i = j}

RECURSIVE SumCounts(_, _)
SumCounts(S, p) ==
  IF S = {} THEN 0
  ELSE LET k == CHOOSE x \in S : TRUE IN p[k] + SumCounts(S \ {k}, p)

----------------------------------------------------------------------------
\* C1: once from_str has returned, each of the two retained records is the
\* payload of the last line (in line order) that matches that type's marker
\* and deserializes, and None when there is no such line.
C1_LastSuccessfulRetained ==
  pc # "scan" =>
    /\ log.player_cards = LastSuccessful(hist, "c")
    /\ log.player_inventory = LastSuccessful(hist, "i")

\* C2: while scanning, for each marker independently, every line that
\* matches the marker and whose payload deserializes has been pushed as a
\* candidate of that type, whatever the other marker did on that line.
C2_EachMarkerIndependently ==
  pc = "scan" =>
    /\ player_cards_vec = OkRecs(hist, "c")
    /\ player_inv_vec = OkRecs(hist, "i")

\* The statement of C1 and C2 over logs none of whose lines matches both
\* markers.
OnSingleMarkerLogs ==
  (\A i \in 1..Len(hist) : ~MatchesBoth(hist[i])) =>
    /\ C1_LastSuccessfulRetained
    /\ C2_EachMarkerIndependently

\* C3: collection() on a Log built by from_str fails only when some entry
\* of the cards record hits a catalog-integrity violation.
C3_FailsOnlyOnIntegrityViolation ==
  pc = "panic" => \E key \in Entries : Violation(key)

\* The statement of C3 over cards records all of whose keys parse as u64.
OnNumericKeys ==
  (\A key \in Entries : ArenaOf(key) # ParseErr) => C3_FailsOnlyOnIntegrityViolation

\* C4: if any entry of the cards record hits a catalog-integrity violation,
\* collection() never returns a collection: the loop cannot run to its end,
\* no Deck is returned, and on the abort the builder with the entries
\* processed so far is gone.
C4_ViolationAbortsWhole ==
  (\E key \in Entries : Violation(key)) =>
    /\ result = <<>>
    /\ pc # "ok"
    /\ ~(pc = "coll" /\ remaining = {})
    /\ pc = "panic" => builder = <<>>

C4_Witness ==
  /\ pc = "panic"
  /\ \E key \in DOMAIN sel : sel[key].kind = "insert"
  /\ \E key \in DOMAIN sel : sel[key].kind = "panic" /\ Violation(key)

\* C5: an entry whose arena id is unknown to the mapping, or mapped to an
\* empty catalog id, is skipped: it adds no card, it is never the entry the
\* run fails on, and the run ends as every run over the same cards record
\* without that entry ends.
C5_SkippedEntryHasNoEffect ==
  \A key \in Entries : Skippable(key) =>
    /\ key \in DOMAIN sel => sel[key].kind = "skip" /\ sel[key].card = NoCard
    /\ Finished =>
         \A o \in Orders(Entries \ {key}) :
           CollectFrom(<<>>, CardsPayload(log), o) = RunOutcome

C5_Witness ==
  /\ pc = "ok"
  /\ \E k1, k2 \in Entries :
       /\ Skippable(k1) /\ ~Mapped(k1)
       /\ sel[k2].kind = "insert"
       /\ result[1][sel[k2].card] > 0

\* C6: the outcome of collection() (success or failure and, on success, the
\* card -> count mapping) is the outcome of visiting the entries in any order.
C6_OrderIndependent ==
  Finished =>
    \A o \in Orders(Entries) : CollectFrom(<<>>, CardsPayload(log), o) = RunOutcome

C6_Witness ==
  /\ pc = "ok"
  /\ \E k1, k2 \in Entries :
       k1 # k2 /\ sel[k1].kind = "insert" /\ sel[k1].card = sel[k2].card
       /\ CardsPayload(log)[k1] # CardsPayload(log)[k2]

\* C7: for an entry that resolves to a non-empty catalog id and for which a
\* card is selected, the card is the one the id index returns when its name
\* is the expected name, the name index then not being consulted, and
\* otherwise the first card of the name index's list for the expected name.
C7_SelectionRule ==
  \A key \in DOMAIN sel : Selects(key) =>
    IF ID_LOOKUP[IdOf(key)].name = NameOf(key)
    THEN sel[key].card = ID_LOOKUP[IdOf(key)] /\ ~sel[key].usedName
    ELSE sel[key].card = NAME_LOOKUP[NameOf(key)][1] /\ sel[key].usedName

C7_Witness ==
  /\ pc = "ok"
  /\ \E k1, k2 \in DOMAIN sel :
       /\ sel[k1].kind = "insert" /\ sel[k1].usedName
       /\ Len(NAME_LOOKUP[NameOf(k1)]) > 1
       /\ sel[k2].kind = "insert" /\ ~sel[k2].usedName

\* C8: when collection() succeeds, the Deck holds exactly the cards selected
\* for the entries that are not skipped, each with the sum of the counts of
\* the entries that select it; without a cards record the Deck is empty.
C8_ExactSummedCollection ==
  pc = "ok" =>
    LET kept == {key \in Entries : ~Skippable(key)} IN
    /\ DOMAIN result[1] = {ExpectedCard(key) : key \in kept}
    /\ \A c \in DOMAIN result[1] :
         result[1][c] =
           SumCounts({key \in kept : ExpectedCard(key) = c}, CardsPayload(log))
    /\ log.player_cards = <<>> => result[1] = <<>>

C8_Witness ==
  /\ pc = "ok"
  /\ \E k1, k2 \in Entries :
       /\ k1 # k2 /\ ArenaOf(k1) # ArenaOf(k2)
       /\ sel[k1].kind = "insert" /\ sel[k2].kind = "insert"
       /\ sel[k1].card = sel[k2].card
       /\ result[1][sel[k1].card] = CardsPayload(log)[k1] + CardsPayload(log)[k2]
       /\ CardsPayload(log)[k1] > 0 /\ CardsPayload(log)[k2] > 0

\* The JSON payload of the document a retained record was deserialized from.
SourcePayload(rec) ==
  LET n == CHOOSE x \in DOMAIN JsonText : JsonText[x].id = rec.id IN JsonText[n].payload

\* C9: each accessor returns the corresponding member of the retained
\* inventory record's payload, zero for a member the payload lacks, and zero
\* when no inventory record is retained, whatever the cards record is.
C9_AccessorsReadInventory ==
  acc # NoAcc =>
    LET p == IF log.player_inventory = <<>> THEN <<>>
             ELSE SourcePayload(log.player_inventory[1]) IN
    /\ acc[1].wc_common_count   = FieldOrDefault(p, "wcCommon")
    /\ acc[1].wc_uncommon_count = FieldOrDefault(p, "wcUncommon")
    /\ acc[1].wc_rare_count     = FieldOrDefault(p, "wcRare")
    /\ acc[1].wc_mythic_count   = FieldOrDefault(p, "wcMythic")
    /\ acc[1].gems              = FieldOrDefault(p, "gems")
    /\ acc[1].gold              = FieldOrDefault(p, "gold")

C9_Witness ==
  /\ acc # NoAcc
  /\ log.player_cards # <<>>
  /\ log.player_inventory # <<>>
  /\ acc[1].wc_rare_count = 3 /\ acc[1].gems = 0 /\ acc[1].wc_mythic_count = 0

\* C10: in a Deck collection() returns, a card whose own arena id is nonzero
\* got its count only from entries whose key parses to that arena id; and the
\* arena-id check rejects an entry exactly when the card finally selected for
\* it (after any name fallback) is bound to another nonzero arena id.
C10_NonzeroArenaIdNeverMerged ==
  /\ pc = "ok" =>
       \A key \in DOMAIN sel :
         (sel[key].kind = "insert" /\ sel[key].card.arena_id # 0)
           => ArenaOf(key) = sel[key].card.arena_id
  /\ \A key \in DOMAIN sel : Selects(key) =>
       ((sel[key].kind = "panic" /\ sel[key].why = "unreachable") <=> Conflict(key))

C10_Witness ==
  /\ pc = "ok"
  /\ \E k1, k2 \in DOMAIN sel :
       /\ sel[k1].kind = "insert" /\ sel[k1].usedName
       /\ ID_LOOKUP[IdOf(k1)].arena_id \notin {0, ArenaOf(k1)}
       /\ sel[k1].card.arena_id = ArenaOf(k1)
       /\ k1 # k2 /\ sel[k2].kind = "insert" /\ sel[k2].card.arena_id = 0
====
